---- MODULE Spec2Model ----
(***************************************************************************)
(* Model of package jpegutil (src/jpegutil/jpegutil.go): the validator     *)
(* Assert, the segment scanner scratch.seekToDQT (in its two definitions), *)
(* the metadata encoders SetMeta and ReplaceMeta, and WriteFile draining   *)
(* the composed reader.  A stream rs is a byte sequence src and a cursor   *)
(* pos (0-based offset of the next byte to read).                          *)
(***************************************************************************)
EXTENDS Integers, Sequences, FiniteSets

(***************************************************************************)
(* Bounds of the model.                                                    *)
(***************************************************************************)
\* Number of header segments put between SOI and the tail of a source.
MaxSegs == 2
\* Length of the arbitrary short streams given to the validator.
MaxTiny == 3
\* The long tag values run from the one that makes the APP1 total 65535
\* to MaxLongExtra bytes more.
MaxLongExtra == 2

(***************************************************************************)
(* JPEG header markers (package-level vars).                               *)
(***************************************************************************)
soi == <<255, 216>>
app1 == <<255, 225>>
exif == <<69, 120, 105, 102, 0, 0>>
tiff == <<77, 77, 0, 42, 0, 0, 0, 8>>
ifd0Next == <<0, 0, 0, 0>>
dqt == <<255, 219>>
segPad == <<0, 0>>
eoi == <<255, 217>>

\* type tag int; const ( MetaArtist tag = iota; MetaTitle; MetaCopyright )
MetaArtist == 0
MetaTitle == 1
MetaCopyright == 2
Tags == {MetaArtist, MetaTitle, MetaCopyright}

\* First two bytes are tag, second two are type.
tagMarker ==
  [t \in Tags |->
     CASE t = MetaArtist -> <<1, 59, 0, 2>>
       [] t = MetaTitle -> <<1, 14, 0, 2>>
       [] t = MetaCopyright -> <<130, 152, 0, 2>>]

(***************************************************************************)
(* io.ReadSeeker over a byte slice (bytes.Reader, os.File).                *)
(***************************************************************************)
SeekStart == "SeekStart"
SeekCurrent == "SeekCurrent"
SeekEnd == "SeekEnd"

Min(a, b) == IF a < b THEN a ELSE b

\* rs.Seek(offset, whence): an error and no move when the target is negative;
\* a target beyond the end is allowed.
Seek(s, at, offset, whence) ==
  LET abs == CASE whence = SeekStart -> offset
               [] whence = SeekCurrent -> at + offset
               [] whence = SeekEnd -> Len(s) + offset
  IN IF abs < 0 THEN [err |-> "negative position", pos |-> at]
     ELSE [err |-> "", pos |-> abs]

\* rs.Read(q): at or beyond the end 0 bytes and io.EOF; otherwise as many
\* bytes as are left, at most len(q), copied to the front of q.
Read(s, at, q) ==
  IF at >= Len(s)
  THEN [n |-> 0, err |-> "EOF", pos |-> at, p |-> q]
  ELSE LET k == Min(Len(q), Len(s) - at)
       IN [n |-> k, err |-> "", pos |-> at + k,
           p |-> [i \in 1..Len(q) |-> IF i <= k THEN s[at + i] ELSE q[i]]]

(***************************************************************************)
(* Assert(rs)                                                              *)
(***************************************************************************)
\* The final comparison of Assert: bytes.Equal(p, eoi).
AssertNoEOICheck(q) == ""
AssertEOI(q) == IF q # eoi THEN "jpegutil: missing EOI marker" ELSE ""

AssertRS(s) ==
  LET s0 == Seek(s, 0, 0, SeekStart)
      r1 == Read(s, s0.pos, <<0, 0>>)
      s2 == Seek(s, r1.pos, -2, SeekEnd)
      r2 == Read(s, s2.pos, r1.p)
  IN IF r1.err # "" THEN [err |-> r1.err, pos |-> r1.pos]
     ELSE IF r1.p # soi THEN [err |-> "jpegutil: missing SOI marker", pos |-> r1.pos]
     ELSE IF s2.err # "" THEN [err |-> s2.err, pos |-> s2.pos]
     ELSE IF r2.err # "" /\ r2.err # "EOF" THEN [err |-> r2.err, pos |-> r2.pos]
     ELSE [err |-> AssertEOI(r2.p), pos |-> r2.pos]

(***************************************************************************)
(* scratch.bytes                                                           *)
(***************************************************************************)
\* binary.BigEndian.PutUint16(p, uint16(n)); p[0:2]
BE16(n) == LET u == n % 65536 IN <<u \div 256, u % 256>>
\* binary.BigEndian.PutUint32(p, uint32(n)); p.  The n passed are lengths and
\* offsets of byte slices in memory, between 0 and 2^31 - 1 here, where uint32(n) is n.
BE32(n) == <<(n \div 16777216) % 256, (n \div 65536) % 256, (n \div 256) % 256, n % 256>>

bytes(n, byteCount) == IF byteCount = 2 THEN BE16(n) ELSE BE32(n)

\* binary.BigEndian.Uint16
Uint16(b) == b[1] * 256 + b[2]
Uint32(b) == ((b[1] * 256 + b[2]) * 256 + b[3]) * 256 + b[4]

(***************************************************************************)
(* SetMeta / ReplaceMeta: the synthesized prefix                           *)
(***************************************************************************)
RECURSIVE InsertInt(_, _)
InsertInt(x, s) ==
  IF s = <<>> THEN <<x>>
  ELSE IF x <= Head(s) THEN <<x>> \o s
  ELSE <<Head(s)>> \o InsertInt(x, Tail(s))

RECURSIVE InsertIntDesc(_, _)
InsertIntDesc(x, s) ==
  IF s = <<>> THEN <<x>>
  ELSE IF x >= Head(s) THEN <<x>> \o s
  ELSE <<Head(s)>> \o InsertIntDesc(x, Tail(s))

RECURSIVE SortIntsDesc(_)
SortIntsDesc(s) == IF s = <<>> THEN <<>> ELSE InsertIntDesc(Head(s), SortIntsDesc(Tail(s)))

\* sort.Ints(sorted)
RECURSIVE SortInts(_)
SortInts(s) == IF s = <<>> THEN <<>> ELSE InsertInt(Head(s), SortInts(Tail(s)))

\* The tags appended in the order the range over md visits them, then sorted.
sortedUnsorted(visit) == visit
sortedTags(visit) == SortInts(visit)

\* ifdOffset before the entries loop.
ifdOffsetNoNext(m) == Len(tiff) + 2 + (Cardinality(DOMAIN m) * 12)
ifdOffsetInit(m) == Len(tiff) + 2 + (Cardinality(DOMAIN m) * 12) + Len(ifd0Next)

\* for t, v := range md { app1Len += len(v) + 1 }
RECURSIVE valueLens(_, _)
valueLens(m, visit) ==
  IF visit = <<>> THEN 0 ELSE (Len(m[Head(visit)]) + 1) + valueLens(m, Tail(visit))

app1Len(m, visit) == 4 + Len(exif) + ifdOffsetInit(m) + valueLens(m, visit)

\* if app1Len > (1024 * 64)
tooLong(len) == len > (1024 * 64)

\* newData := append([]byte(md[tag(t)]), 0x00)
newData(v) == Append(v, 0)

\* The entries loop: tag and type, length of the payload, pointer to the payload.
RECURSIVE ifdEntries(_, _, _)
ifdEntries(m, tags, ifdOffset) ==
  IF tags = <<>> THEN <<>>
  ELSE LET nd == newData(m[Head(tags)])
       IN tagMarker[Head(tags)] \o bytes(Len(nd), 4) \o bytes(ifdOffset, 4)
            \o ifdEntries(m, Tail(tags), ifdOffset + Len(nd))

\* data = append(data, newData...)
RECURSIVE ifdData(_, _)
ifdData(m, tags) ==
  IF tags = <<>> THEN <<>> ELSE newData(m[Head(tags)]) \o ifdData(m, Tail(tags))

\* buf.Bytes() of the non-empty path.
metaBuf(m, visit) ==
  LET tags == sortedTags(visit)
  IN soi \o app1 \o bytes(app1Len(m, visit), 2) \o exif \o tiff
       \o bytes(Cardinality(DOMAIN m), 2)
       \o ifdEntries(m, tags, ifdOffsetInit(m))
       \o ifd0Next \o ifdData(m, tags) \o segPad

\* The prefix of the early return: io.MultiReader(bytes.NewReader(soi), rs).
emptyBufNone == <<>>
emptyBuf == soi

\* The scratch after the prefix is built: the last p.bytes call of the loop wrote
\* the pointer of the last entry.
RECURSIVE lastPointer(_, _, _)
lastPointer(m, tags, ifdOffset) ==
  IF Len(tags) <= 1 THEN bytes(ifdOffset, 4)
  ELSE lastPointer(m, Tail(tags), ifdOffset + Len(newData(m[Head(tags)])))

(***************************************************************************)
(* scratch.seekToDQT                                                       *)
(***************************************************************************)
\* The floor of the computed remaining length: "if segLen < 8" in the scanner
\* SetMeta uses, "if segLen < 6" in the one ReplaceMeta uses.
minSegLenSetMeta == 8
minSegLenReplaceMeta == 6
minSegLen(o) == IF o = "SetMeta" THEN minSegLenSetMeta ELSE minSegLenReplaceMeta

\* segLen := int64(binary.BigEndian.Uint16(p[2:4])) - 2
segLenOf(q) == Uint16(SubSeq(q, 3, 4)) - 2

\* rs.Seek(segLen, io.SeekCurrent)
skipFromStart(s, at, segLen) == Seek(s, at, segLen, SeekStart)
skipSegment(s, at, segLen) == Seek(s, at, segLen, SeekCurrent)

\* Seek back to the start of the DQT marker: rs.Seek(-4, io.SeekCurrent)
rewindNone(s, at) == Seek(s, at, 0, SeekCurrent)
rewindToDQT(s, at) == Seek(s, at, -4, SeekCurrent)

\* One iteration of the loop of seekToDQT, with what follows the break.
scanIter(s, at, q, floor) ==
  LET r == Read(s, at, q)
      segLen == segLenOf(r.p)
      sk == skipSegment(s, r.pos, segLen)
      rw == rewindToDQT(s, r.pos)
  IN IF r.err # "" THEN [pc |-> "failed", err |-> r.err, pos |-> r.pos, p |-> r.p]
     ELSE IF r.n # 4
       THEN [pc |-> "failed", pos |-> r.pos, p |-> r.p,
             err |-> "jpegutil: couldn't read next segment marker and length"]
     ELSE IF SubSeq(r.p, 1, 2) = dqt
       THEN IF rw.err # "" THEN [pc |-> "failed", err |-> rw.err, pos |-> rw.pos, p |-> r.p]
            ELSE [pc |-> "returned", err |-> "", pos |-> rw.pos, p |-> r.p]
     ELSE IF segLen < floor
       THEN [pc |-> "failed", pos |-> r.pos, p |-> r.p,
             err |-> "jpegutil: reported segment length too small"]
     ELSE IF sk.err # "" THEN [pc |-> "failed", err |-> sk.err, pos |-> sk.pos, p |-> r.p]
     ELSE [pc |-> "scan", err |-> "", pos |-> sk.pos, p |-> r.p]

(***************************************************************************)
(* SetMeta / ReplaceMeta up to the loop of seekToDQT                       *)
(***************************************************************************)
enterMeta(s, m, visit) ==
  LET a == AssertRS(s)
      total == app1Len(m, visit)
      start == Seek(s, a.pos, 2, SeekStart)
  IN IF a.err # ""
       THEN [pc |-> "failed", err |-> a.err, pos |-> a.pos, p |-> <<0, 0, 0, 0>>, buf |-> <<>>]
     ELSE IF Cardinality(DOMAIN m) = 0
       THEN [pc |-> "scan", err |-> "", pos |-> start.pos, p |-> <<0, 0, 0, 0>>,
             buf |-> emptyBuf]
     ELSE IF tooLong(total)
       THEN [pc |-> "failed", err |-> "jpegutil: APP1 segment is too long", pos |-> a.pos,
             p |-> <<0, 0, 0, 0>>, buf |-> <<>>]
     ELSE [pc |-> "scan", err |-> "", pos |-> start.pos,
           p |-> lastPointer(m, sortedTags(visit), ifdOffsetInit(m)),
           buf |-> metaBuf(m, visit)]

(***************************************************************************)
(* WriteFile                                                               *)
(***************************************************************************)
\* What io.MultiReader(bytes.NewReader(buf), rs) yields when drained: buf, then
\* rs from its cursor to its end.
drained(b, s, at) == b \o SubSeq(s, at + 1, Len(s))

\* The count WriteFile returns: the one beside SetMeta adds count only on the
\* read that returns io.EOF (which carries no bytes), the one beside ReplaceMeta
\* adds the count of every read.
written(o, bs) == IF o = "SetMeta" THEN 0 ELSE Len(bs)

(***************************************************************************)
(* Inputs                                                                  *)
(***************************************************************************)
\* Header segments: marker, declared length, payload.
segA == <<255, 225, 0, 8, 255, 219, 0, 4, 17, 17>>
segB == <<255, 224, 0, 10, 1, 2, 3, 4, 5, 6, 7, 8>>
segC == <<255, 225, 0, 3, 17>>
segE == <<255, 226, 0, 7, 1, 2, 3, 4, 5>>
SegShapes == {segA, segB, segC, segE}

tailDQT == <<255, 219, 0, 4, 1, 2, 255, 218, 51, 52, 255, 217>>
tailNoDQT == <<255, 217>>
tailNoEOI == <<255, 219, 0, 4, 1, 2, 51>>
tailOverrun == <<255, 226, 0, 64, 255, 217>>
Tails == {tailDQT, tailNoDQT, tailNoEOI, tailOverrun}

badHead == <<255, 217>>

RECURSIVE Flatten(_)
Flatten(l) == IF l = <<>> THEN <<>> ELSE Head(l) \o Flatten(Tail(l))

SegLists == UNION {[1..k -> SegShapes] : k \in 0..MaxSegs}

JpegSources ==
  {soi \o Flatten(l) \o t : l \in SegLists, t \in Tails} \cup {badHead \o t : t \in Tails}

TinyStreams == UNION {[1..k -> {255, 216, 217}] : k \in 0..MaxTiny}

Values == {<<>>, <<65, 66>>}
ShortMDs == UNION {[S -> Values] : S \in SUBSET Tags}

LongStr(k) == [i \in 1..k |-> 65]
LongBase == 65535 - app1Len([t \in {MetaArtist} |-> <<>>], <<MetaArtist>>)
LongMDs == {[t \in {MetaArtist} |-> LongStr(k)] : k \in LongBase..(LongBase + MaxLongExtra)}
LongSources == {soi \o segB \o tailDQT}

Inputs == (JpegSources \X ShortMDs) \cup (LongSources \X LongMDs)

\* The orders in which a range over md may visit its keys.
Visits(m) ==
  {v \in [1..Cardinality(DOMAIN m) -> DOMAIN m] : \A i, j \in DOMAIN v : i # j => v[i] # v[j]}

(***************************************************************************)
(* State                                                                   *)
(***************************************************************************)
VARIABLES
  op,     \* the function called: "Assert", "SetMeta" or "ReplaceMeta"
  src,    \* the bytes of rs
  pos,    \* the cursor of rs
  md,     \* the metadata map
  order,  \* the order in which this call's range over md visits the keys
  p,      \* the scratch
  buf,    \* the synthesized prefix
  pc,     \* "idle", "scan" (in the loop of seekToDQT), "returned", "written", "failed"
  err,    \* the error returned, "" for nil
  file,   \* the bytes WriteFile wrote
  n,      \* the count WriteFile returned
  first,  \* the result of the caller's first call, kept while it calls again
  run     \* 1 in the first call on (rs, md), 2 in the second

vars == <<op, src, pos, md, order, p, buf, pc, err, file, n, first, run>>

NoFirst == [set |-> FALSE, file |-> <<>>, order |-> <<>>]

Init ==
  /\ op = "" /\ src = <<>> /\ pos = 0 /\ md = <<>> /\ order = <<>>
  /\ p = <<0, 0, 0, 0>> /\ buf = <<>> /\ pc = "idle" /\ err = ""
  /\ file = <<>> /\ n = 0 /\ first = NoFirst /\ run = 1

CallAssert ==
  /\ pc = "idle"
  /\ \E s \in TinyStreams \cup JpegSources :
       LET a == AssertRS(s)
       IN /\ op' = "Assert" /\ src' = s /\ pos' = a.pos /\ err' = a.err
          /\ pc' = IF a.err = "" THEN "returned" ELSE "failed"
  /\ UNCHANGED <<md, order, p, buf, file, n, first, run>>

Enter(o, s, m, visit) ==
  LET e == enterMeta(s, m, visit)
  IN /\ op' = o /\ src' = s /\ md' = m /\ order' = visit
     /\ pos' = e.pos /\ p' = e.p /\ buf' = e.buf /\ pc' = e.pc /\ err' = e.err
     /\ file' = <<>> /\ n' = 0

CallSetMeta ==
  /\ pc = "idle"
  /\ \E in \in Inputs : \E visit \in Visits(in[2]) : Enter("SetMeta", in[1], in[2], visit)
  /\ UNCHANGED <<first, run>>

CallReplaceMeta ==
  /\ pc = "idle"
  /\ \E in \in Inputs : \E visit \in Visits(in[2]) : Enter("ReplaceMeta", in[1], in[2], visit)
  /\ UNCHANGED <<first, run>>

ScanIter ==
  /\ pc = "scan"
  /\ LET r == scanIter(src, pos, p, minSegLen(op))
     IN pos' = r.pos /\ p' = r.p /\ pc' = r.pc /\ err' = r.err
  /\ UNCHANGED <<op, src, md, order, buf, file, n, first, run>>

WriteFile ==
  /\ pc = "returned" /\ op # "Assert"
  /\ file' = drained(buf, src, pos)
  /\ n' = written(op, file')
  /\ pos' = IF pos < Len(src) THEN Len(src) ELSE pos
  /\ pc' = "written"
  /\ UNCHANGED <<op, src, md, order, p, buf, err, first, run>>

\* The caller encodes the same md against the same rs a second time.
Repeat ==
  /\ pc = "written" /\ run = 1
  /\ first' = [set |-> TRUE, file |-> file, order |-> order]
  /\ run' = 2
  /\ \E visit \in Visits(md) : Enter(op, src, md, visit)

Next == CallAssert \/ CallSetMeta \/ CallReplaceMeta \/ ScanIter \/ WriteFile \/ Repeat

Spec == Init /\ [][Next]_vars

\* The loop of seekToDQT is sequential code: once entered, its next iteration runs.
FairSpec == Spec /\ WF_vars(ScanIter)

(***************************************************************************)
(* Properties                                                              *)
(***************************************************************************)
Encoders == {"SetMeta", "ReplaceMeta"}

\* The offset of the first DQT marker met when walking the marker chain of s
\* from offset o (each segment is its 2-byte marker and as many bytes as its
\* length field declares), or -1 when the chain leaves s before a DQT marker.
RECURSIVE ChainDQT(_, _)
ChainDQT(s, o) ==
  IF o + 2 > Len(s) THEN -1
  ELSE IF SubSeq(s, o + 1, o + 2) = dqt THEN o
  ELSE IF o + 4 > Len(s) THEN -1
  ELSE ChainDQT(s, o + 2 + Uint16(SubSeq(s, o + 3, o + 4)))

\* The loop of seekToDQT run to its end on s from the cursor at.
RECURSIVE ScanAll(_, _, _, _)
ScanAll(s, at, q, floor) ==
  LET r == scanIter(s, at, q, floor)
  IN IF r.pc = "scan" THEN ScanAll(s, r.pos, r.p, floor) ELSE r

RECURSIVE SumLens(_, _)
SumLens(m, S) ==
  IF S = {} THEN 0
  ELSE LET t == CHOOSE x \in S : TRUE IN (Len(m[t]) + 1) + SumLens(m, S \ {t})

\* 4 + 6 + (8 + 2 + 12*n + 4) + the sum over the values of (length + 1)
TrueTotal(m) == 4 + 6 + (8 + 2 + 12 * Cardinality(DOMAIN m) + 4) + SumLens(m, DOMAIN m)

\* The output: 0-based offset of the TIFF header, and the fields of entry i
\* (0-based) of IFD0.
TiffAt == Len(soi) + Len(app1) + 2 + Len(exif)
EntryCount == Uint16(SubSeq(file, TiffAt + 9, TiffAt + 10))
EntryAt(i) == TiffAt + 10 + 12 * i
EntryCode(i) == SubSeq(file, EntryAt(i) + 1, EntryAt(i) + 4)
EntryId(i) == Uint16(SubSeq(file, EntryAt(i) + 1, EntryAt(i) + 2))
EntryLen(i) == Uint32(SubSeq(file, EntryAt(i) + 5, EntryAt(i) + 8))
EntryOff(i) == Uint32(SubSeq(file, EntryAt(i) + 9, EntryAt(i) + 12))
EntryTag(i) == CHOOSE t \in Tags : tagMarker[t] = EntryCode(i)

Encoded == pc = "written" /\ op \in Encoders
EncodedMeta == Encoded /\ DOMAIN md # {}

\* C1: whenever an encoder succeeds, the bytes of the drained reader after the
\* synthesized prefix are the source bytes from the first DQT marker of the
\* marker chain (walked from offset 2) through the last byte of the source.
C1_TailIsSourceFromDQT ==
  Encoded =>
    LET d == ChainDQT(src, 2)
    IN /\ d >= 2
       /\ SubSeq(file, 1, Len(buf)) = buf
       /\ buf = soi \/ (DOMAIN md # {} /\ SubSeq(buf, 1, 4) = soi \o app1)
       /\ SubSeq(file, Len(buf) + 1, Len(file)) = SubSeq(src, d + 1, Len(src))

C1_Witness ==
  /\ Encoded /\ op = "ReplaceMeta" /\ DOMAIN md # {}
  /\ ChainDQT(src, 2) > 2 /\ Len(file) > Len(buf) + 4

\* C2: Assert returns no error if and only if the first two bytes of the
\* stream are FF D8 and its last two bytes are FF D9.
C2_AssertIff ==
  (op = "Assert" /\ pc # "idle") =>
    ((err = "") <=>
       (/\ Len(src) >= 2
        /\ SubSeq(src, 1, 2) = soi
        /\ SubSeq(src, Len(src) - 1, Len(src)) = eoi))

C2_Witness == op = "Assert" /\ pc = "returned" /\ err = "" /\ Len(src) > 4

\* C3: a set whose APP1 total is at most 65535 is not refused as too long, a set
\* whose total is 65536 or more is refused with 'APP1 segment is too long' and
\* no reader, and the length field of any prefix produced holds the true total.
C3_LengthFieldNeverWraps ==
  (op \in Encoders /\ DOMAIN md # {} /\ AssertRS(src).err = "") =>
    /\ TrueTotal(md) <= 65535 => err # "jpegutil: APP1 segment is too long"
    /\ TrueTotal(md) >= 65536 =>
         (pc = "failed" /\ err = "jpegutil: APP1 segment is too long" /\ buf = <<>>)
    /\ buf # <<>> => (TrueTotal(md) <= 65535 /\ Uint16(SubSeq(buf, 5, 6)) = TrueTotal(md))

\* C4: in the output for a non-empty set every IFD entry's length field is the
\* length of its tag's string plus 1, the bytes at its offset from the TIFF
\* header are that string and one NUL, and the ranges of the entries lie in the
\* value blob and do not overlap.
C4_OffsetCorrectness ==
  EncodedMeta =>
    /\ EntryCount = Cardinality(DOMAIN md)
    /\ \A i \in 0..(EntryCount - 1) :
         /\ \E t \in DOMAIN md :
              /\ EntryCode(i) = tagMarker[t]
              /\ EntryLen(i) = Len(md[t]) + 1
              /\ SubSeq(file, TiffAt + EntryOff(i) + 1, TiffAt + EntryOff(i) + EntryLen(i))
                   = md[t] \o <<0>>
         /\ EntryOff(i) >= 10 + 12 * EntryCount + 4
         /\ TiffAt + EntryOff(i) + EntryLen(i) <= Len(buf) - 2
    /\ \A i, j \in 0..(EntryCount - 1) :
         i # j => /\ EntryCode(i) # EntryCode(j)
                  /\ \/ EntryOff(i) + EntryLen(i) <= EntryOff(j)
                     \/ EntryOff(j) + EntryLen(j) <= EntryOff(i)

C4_Witness ==
  /\ EncodedMeta /\ op = "ReplaceMeta" /\ Cardinality(DOMAIN md) = 3
  /\ md[MetaTitle] = <<65, 66>> /\ md[MetaArtist] = <<>>

\* C5: in the output for a non-empty set the APP1 length field is
\* 4 + 6 + (8 + 2 + 12*n + 4) + the sum of (length + 1), skipping (length - 2)
\* bytes from the byte after the field lands on the first byte of the spliced
\* DQT marker, and the scanner run on the output stops at that marker.  It is
\* stated of every call whose prefix is built and whose scan of the source
\* succeeds, the output being the prefix and the source from where that scan ends.
C5_LengthCountsItself ==
  LET sc == ScanAll(src, 2, <<0, 0, 0, 0>>, minSegLen(op))
  IN (op \in Encoders /\ DOMAIN md # {} /\ buf # <<>> /\ sc.pc = "returned") =>
       LET out == drained(buf, src, sc.pos)
           L == Uint16(SubSeq(out, 5, 6))
           r == ScanAll(out, 2, <<0, 0, 0, 0>>, minSegLen(op))
       IN /\ L = TrueTotal(md)
          /\ 6 + (L - 2) = Len(buf)
          /\ SubSeq(out, Len(buf) + 1, Len(buf) + 2) = dqt
          /\ r.pc = "returned" /\ r.pos = Len(buf)
          /\ pc = "written" => file = out

\* C6: encoding the empty set yields SOI followed by the source from its DQT
\* marker on: the marker after SOI is DQT, and nothing of the source between
\* SOI and that marker is in the output.
C6_EmptySetStripsMeta ==
  (Encoded /\ DOMAIN md = {}) =>
    LET d == ChainDQT(src, 2)
    IN /\ d >= 2
       /\ file = soi \o SubSeq(src, d + 1, Len(src))
       /\ Len(file) = Len(src) - (d - 2)
       /\ SubSeq(file, 3, 4) = dqt
       /\ ChainDQT(file, 2) = 2

C6_Witness ==
  /\ Encoded /\ op = "ReplaceMeta" /\ DOMAIN md = {}
  /\ SubSeq(src, 3, 4) = app1 /\ ChainDQT(src, 2) > 2

\* C7 (as stated): with two or more tags the 2-byte EXIF tag ids of the IFD
\* entries are strictly increasing front to back.
C7_ExifIdsAscending ==
  (EncodedMeta /\ Cardinality(DOMAIN md) >= 2) =>
    \A i \in 0..(EntryCount - 2) : EntryId(i) < EntryId(i + 1)

\* C7 (amended): with two or more tags the IFD entries are in ascending order
\* of the tag's own integer value (MetaArtist 0, MetaTitle 1, MetaCopyright 2),
\* and the values lie in the blob back to back in that same order.
C7_TagValuesAscending ==
  (EncodedMeta /\ Cardinality(DOMAIN md) >= 2) =>
    \A i \in 0..(EntryCount - 2) :
      /\ EntryCode(i) \in {tagMarker[t] : t \in DOMAIN md}
      /\ EntryCode(i + 1) \in {tagMarker[t] : t \in DOMAIN md}
      /\ EntryTag(i) < EntryTag(i + 1)
      /\ EntryOff(i + 1) = EntryOff(i) + EntryLen(i)

C7_Witness ==
  /\ EncodedMeta /\ Cardinality(DOMAIN md) = 3
  /\ order = <<MetaCopyright, MetaArtist, MetaTitle>>
  /\ EntryId(0) = 315 /\ EntryId(1) = 270 /\ EntryId(2) = 33432

\* C8: a second encoding of the same source with the same set succeeds and
\* yields the bytes of the first, whatever order the range over the map
\* visits the tags in.
C8_OutputDeterministic ==
  run = 2 =>
    /\ pc # "failed"
    /\ pc = "written" => file = first.file

C8_Witness ==
  /\ run = 2 /\ pc = "written" /\ op = "ReplaceMeta"
  /\ Cardinality(DOMAIN md) = 3 /\ order # first.order /\ first.set

\* C9: in either scanner a segment met before the DQT marker is refused with
\* 'reported segment length too small' exactly when its declared length minus 2
\* is below 6, and otherwise skipped by exactly (declared length - 2) bytes.
C9_FloorIsSix ==
  [][(/\ pc = "scan"
      /\ pos + 4 <= Len(src)
      /\ SubSeq(src, pos + 1, pos + 2) # dqt)
     => LET remaining == Uint16(SubSeq(src, pos + 3, pos + 4)) - 2
        IN IF remaining < 6
           THEN pc' = "failed" /\ err' = "jpegutil: reported segment length too small"
           ELSE pc' = "scan" /\ err' = "" /\ pos' = pos + 4 + remaining]_vars

\* C10: the scan terminates: an iteration that does not stop the scan moves the
\* cursor forward by the 4 bytes read and at least the floor, every scan comes
\* to an end, a scan that succeeds leaves the cursor on the first byte of a DQT
\* marker, and a stream with no DQT marker in its chain never ends in success.
C10_ScanTerminates ==
  /\ [][(pc = "scan" /\ pc' = "scan") => pos' >= pos + 4 + minSegLenReplaceMeta]_vars
  /\ (pc = "scan") ~> (pc # "scan")
  /\ []((pc = "returned" /\ op \in Encoders) =>
          (pos + 4 <= Len(src) /\ SubSeq(src, pos + 1, pos + 2) = dqt))
  /\ []((op \in Encoders /\ ChainDQT(src, 2) = -1) => pc \notin {"returned", "written"})

C10_Witness ==
  /\ op = "ReplaceMeta" /\ pc = "returned" /\ pos >= 2 + 2 * (4 + minSegLenReplaceMeta)

====
